---- MODULE Spec2Model ----
(***************************************************************************)
(* Task manager: the task controller and task schema of the backend        *)
(* (README sample code) and the state handling of the client (App.js).     *)
(*                                                                         *)
(* Strings are modelled by the strings of the form  " "^pre "a"^core :     *)
(* pre leading blanks followed by core non-blank characters.  That is      *)
(* enough to tell a trimmed from an untrimmed value and to measure a       *)
(* length against the schema's maxlength.  An optional field is a          *)
(* sequence of length 0 (undefined) or 1.  dueDate and updatedAt are left  *)
(* out: no validator, filter or sort reads them.                           *)
(***************************************************************************)
EXTENDS Integers, Sequences, FiniteSets, TLC

VARIABLES
  store,            \* the Task collection: a set of task documents
  nextId,           \* the next fresh _id
  now,              \* the clock, in milliseconds, as the timestamps plugin last read it at a save
  createdBy,        \* history: createdBy[id] is the user whose request created task id
  last,             \* the last request handled by the controller and its response
  token,            \* client: localStorage 'token' (<<>> when none)
  isAuthenticated,  \* client: useState(false)
  tasks,            \* client: useState([])
  loading,          \* client: useState(true)
  mounted,          \* client: whether the mount effect has run
  calls,            \* client: the async handler calls in flight, in the order they were made
  disturbed         \* history: a client request was answered with an error, or a
                    \* fetchTasks call was in flight together with another call

vars == <<store, nextId, now, createdBy, last, token, isAuthenticated, tasks,
          loading, mounted, calls, disturbed>>
clientVars == <<token, isAuthenticated, tasks, loading, mounted, calls, disturbed>>

----------------------------------------------------------------------------
(* Bounds *)

MaxTasks == 2
MaxSchemaTasks == 1
MaxClientTasks == 2
MaxCalls == 2
MaxLoadTasks == 1
MaxLoadCalls == 1

----------------------------------------------------------------------------
(* Strings *)

Str(p, c) == [pre |-> p, core |-> c]
StrLen(s) == s.pre + s.core

\* a String path with trim: true
trim(s) == [pre |-> 0, core |-> s.core]

TitleMax == 100
DescMax == 500

----------------------------------------------------------------------------
(* models/Task.js *)

Users == {"u1", "u2"}
\* a well-formed ObjectId that is the _id of no user
NoUser == "u9"
ObjectIds == Users \cup {NoUser}

StatusEnum == {"todo", "in-progress", "completed"}
PriorityEnum == {"low", "medium", "high"}

Has(body, f) == f \in DOMAIN body
Opt(body, f) == IF Has(body, f) THEN <<body[f]>> ELSE <<>>
TrimOpt(o) == IF o = <<>> THEN <<>> ELSE <<trim(o[1])>>

\* title: required, trim, maxlength 100 (validators see the trimmed value)
titleValid(o) == o # <<>> /\ StrLen(o[1]) > 0 /\ StrLen(o[1]) <= TitleMax
\* description: trim, maxlength 500
descriptionValid(o) == o = <<>> \/ StrLen(o[1]) <= DescMax
statusValid(s) == s \in StatusEnum
priorityValid(p) == p \in PriorityEnum

\* the schema without trim: true on title
NewTaskUntrimmed(id, u, body, t) ==
  [_id |-> id,
   title |-> Opt(body, "title"),
   description |-> TrimOpt(Opt(body, "description")),
   status |-> IF Has(body, "status") THEN body.status ELSE "todo",
   priority |-> IF Has(body, "priority") THEN body.priority ELSE "medium",
   user |-> u,
   createdAt |-> t]

\* new Task({title, description, status, priority, dueDate, user}): setters
\* and defaults applied, timestamps set at save
NewTask(id, u, body, t) ==
  [_id |-> id,
   title |-> TrimOpt(Opt(body, "title")),
   description |-> TrimOpt(Opt(body, "description")),
   status |-> IF Has(body, "status") THEN body.status ELSE "todo",
   priority |-> IF Has(body, "priority") THEN body.priority ELSE "medium",
   user |-> u,
   createdAt |-> t]

\* document validation run by save()
validateDoc(doc) ==
  /\ titleValid(doc.title)
  /\ descriptionValid(doc.description)
  /\ statusValid(doc.status)
  /\ priorityValid(doc.priority)

\* findOneAndUpdate without runValidators
validateUpdateOff(body) == TRUE

\* update validators (runValidators: true): only the paths the update sets
validateUpdate(body) ==
  /\ Has(body, "title") => titleValid(TrimOpt(Opt(body, "title")))
  /\ Has(body, "description") => descriptionValid(TrimOpt(Opt(body, "description")))
  /\ Has(body, "status") => statusValid(body.status)
  /\ Has(body, "priority") => priorityValid(body.priority)

\* the document after $set of the paths of body (setters applied)
ApplyUpdate(doc, body) ==
  [doc EXCEPT
     !.title = IF Has(body, "title") THEN TrimOpt(Opt(body, "title")) ELSE @,
     !.description = IF Has(body, "description")
                     THEN TrimOpt(Opt(body, "description")) ELSE @,
     !.status = IF Has(body, "status") THEN body.status ELSE @,
     !.priority = IF Has(body, "priority") THEN body.priority ELSE @,
     !.user = IF Has(body, "user") THEN body.user ELSE @]

----------------------------------------------------------------------------
(* controllers/taskController.js: each handler as a function of the        *)
(* collection, the request and whether the store answers (ok); the result  *)
(* is the new collection, the status code, the class of the error raised   *)
(* and the documents of the response body.                                 *)

Result(st, code, e, d) == [store |-> st, status |-> code, err |-> e, data |-> d]

\* sort({ createdAt: 1 })
findSortedAscending(st, u) ==
  LET mine == {t \in st : t.user = u}
      n == Cardinality(mine)
  IN {s \in [1..n -> mine] :
        /\ \A i, j \in 1..n : i # j => s[i] # s[j]
        /\ \A i, j \in 1..n : i < j => s[i].createdAt <= s[j].createdAt}

\* Task.find({ user }).sort({ createdAt: -1 }): every order of the user's
\* tasks with createdAt non-increasing (equal timestamps come in any order)
findSorted(st, u) ==
  LET mine == {t \in st : t.user = u}
      n == Cardinality(mine)
  IN {s \in [1..n -> mine] :
        /\ \A i, j \in 1..n : i # j => s[i] # s[j]
        /\ \A i, j \in 1..n : i < j => s[i].createdAt >= s[j].createdAt}

getTasksResult(st, u, ok, order) ==
  IF ~ok THEN Result(st, 500, "server", <<>>)
  ELSE Result(st, 200, "none", order)

createTaskResult(st, id, t, u, body, ok) ==
  LET task == NewTask(id, u, body, t)
  IN IF ~validateDoc(task) THEN Result(st, 400, "validation", <<>>)
     ELSE IF ~ok THEN Result(st, 400, "server", <<>>)
     ELSE Result(st \cup {task}, 201, "none", <<task>>)

\* a filter on _id alone
findOneAnyOwner(st, id, u) == {t \in st : t._id = id}

\* the filter of findOneAndUpdate / findOneAndDelete
findOne(st, id, u) == {t \in st : t._id = id /\ t.user = u}

updateTaskResult(st, u, id, body, ok) ==
  IF ~validateUpdate(body) THEN Result(st, 400, "validation", <<>>)
  ELSE IF ~ok THEN Result(st, 400, "server", <<>>)
  ELSE IF findOne(st, id, u) = {} THEN Result(st, 404, "notfound", <<>>)
  ELSE LET task == CHOOSE t \in findOne(st, id, u) : TRUE
           new == ApplyUpdate(task, body)
       IN Result((st \ {task}) \cup {new}, 200, "none", <<new>>)

deleteTaskResult(st, u, id, ok) ==
  IF ~ok THEN Result(st, 500, "server", <<>>)
  ELSE IF findOne(st, id, u) = {} THEN Result(st, 404, "notfound", <<>>)
  ELSE Result(st \ findOne(st, id, u), 200, "none", <<>>)

NoBody == [none |-> TRUE]

Last(op, u, id, body, r) ==
  [op |-> op, user |-> u, id |-> id, req |-> body,
   status |-> r.status, err |-> r.err, data |-> r.data]

getTasks(u, ok) ==
  \E order \in findSorted(store, u) :
    /\ last' = Last("getTasks", u, 0, NoBody, getTasksResult(store, u, ok, order))
    /\ UNCHANGED <<store, nextId, now>>

createTask(u, body, ok) ==
  \E t \in {now, now + 1} :
    LET r == createTaskResult(store, nextId, t, u, body, ok)
    IN /\ store' = r.store
       /\ now' = IF r.status = 201 THEN t ELSE now
       /\ nextId' = IF r.status = 201 THEN nextId + 1 ELSE nextId
       /\ last' = Last("createTask", u, IF r.status = 201 THEN nextId ELSE 0, body, r)

updateTask(u, id, body, ok) ==
  LET r == updateTaskResult(store, u, id, body, ok)
  IN /\ store' = r.store
     /\ last' = Last("updateTask", u, id, body, r)
     /\ UNCHANGED <<nextId, now>>

deleteTask(u, id, ok) ==
  LET r == deleteTaskResult(store, u, id, ok)
  IN /\ store' = r.store
     /\ last' = Last("deleteTask", u, id, NoBody, r)
     /\ UNCHANGED <<nextId, now>>

---------------------------------------------------------------------------------------------------------------------------------------------------
(* Initial state and requests *)

A1 == Str(0, 1)

\* an empty collection; the App before its first render, localStorage holding tok
InitWith(tok) ==
  /\ store = {}
  /\ nextId = 1
  /\ now = 0
  /\ createdBy = <<>>
  /\ last = [op |-> "none", user |-> "u1", id |-> 0, req |-> NoBody,
             status |-> 0, err |-> "none", data |-> <<>>]
  /\ token = tok
  /\ isAuthenticated = FALSE
  /\ tasks = <<>>
  /\ loading = TRUE
  /\ mounted = FALSE
  /\ calls = <<>>
  /\ disturbed = FALSE

Init == InitWith(<<>>)

\* task ids a request may name: the ids handed out so far and a fresh one
Ids == 1..nextId

\* Ownership and ordering: bodies that set the status and the owner reference
CreateBodies == {[title |-> A1], [status |-> "completed"]}
UpdateBodies ==
  {[status |-> "completed"], [status |-> "done"]} \cup {[user |-> o] : o \in Users}

Next ==
  \/ \E u \in Users, ok \in BOOLEAN :
       getTasks(u, ok) /\ UNCHANGED <<createdBy, clientVars>>
  \/ \E u \in Users, ok \in BOOLEAN, body \in CreateBodies :
       nextId <= MaxTasks /\ createTask(u, body, ok) /\ UNCHANGED <<createdBy, clientVars>>
  \/ \E u \in Users, ok \in BOOLEAN, id \in Ids, body \in UpdateBodies :
       updateTask(u, id, body, ok) /\ UNCHANGED <<createdBy, clientVars>>
  \/ \E u \in Users, ok \in BOOLEAN, id \in Ids :
       deleteTask(u, id, ok) /\ UNCHANGED <<createdBy, clientVars>>

Spec == Init /\ [][Next]_vars

\* The same requests, the owner reference set to any ObjectId, and the creator
\* of every task recorded
OwnerUpdateBodies == {[status |-> "completed"]} \cup {[user |-> o] : o \in ObjectIds}
Created == IF nextId' # nextId THEN Append(createdBy, last'.user) ELSE createdBy

NextOwner ==
  \/ \E u \in Users, ok \in BOOLEAN :
       getTasks(u, ok) /\ createdBy' = Created /\ UNCHANGED clientVars
  \/ \E u \in Users, ok \in BOOLEAN, body \in CreateBodies :
       nextId <= MaxTasks /\ createTask(u, body, ok) /\ createdBy' = Created /\ UNCHANGED clientVars
  \/ \E u \in Users, ok \in BOOLEAN, id \in Ids, body \in OwnerUpdateBodies :
       updateTask(u, id, body, ok) /\ createdBy' = Created /\ UNCHANGED clientVars
  \/ \E u \in Users, ok \in BOOLEAN, id \in Ids :
       deleteTask(u, id, ok) /\ createdBy' = Created /\ UNCHANGED clientVars

SpecOwner == Init /\ [][NextOwner]_vars

\* Schema: one user's requests, bodies that set every validated path to values
\* on both sides of each constraint
SchemaUsers == {"u1"}
Titles == {Str(1, 0), A1, Str(1, 1), Str(1, TitleMax), Str(0, TitleMax + 1)}
Descriptions == {Str(1, DescMax), Str(0, DescMax + 1)}
Statuses == {"completed", "done"}
Priorities == {"high", "urgent"}

SchemaCreateBodies ==
  {[title |-> x] : x \in Titles} \cup
  {[title |-> A1, description |-> d] : d \in Descriptions} \cup
  {[title |-> A1, status |-> x] : x \in Statuses} \cup
  {[title |-> Str(1, 1), priority |-> y] : y \in Priorities} \cup
  {[status |-> "completed"]}
SchemaUpdateBodies ==
  {[title |-> x] : x \in Titles} \cup
  {[description |-> d] : d \in Descriptions} \cup
  {[status |-> x] : x \in Statuses} \cup
  {[priority |-> y] : y \in Priorities} \cup
  {[title |-> Str(0, TitleMax), status |-> "done"]}

NextSchema ==
  \/ \E u \in SchemaUsers, ok \in BOOLEAN :
       getTasks(u, ok) /\ UNCHANGED <<createdBy, clientVars>>
  \/ \E u \in SchemaUsers, ok \in BOOLEAN, body \in SchemaCreateBodies :
       nextId <= MaxSchemaTasks /\ createTask(u, body, ok) /\ UNCHANGED <<createdBy, clientVars>>
  \/ \E u \in SchemaUsers, ok \in BOOLEAN, id \in Ids, body \in SchemaUpdateBodies :
       updateTask(u, id, body, ok) /\ UNCHANGED <<createdBy, clientVars>>
  \/ \E u \in SchemaUsers, ok \in BOOLEAN, id \in Ids :
       deleteTask(u, id, ok) /\ UNCHANGED <<createdBy, clientVars>>

SpecSchema == Init /\ [][NextSchema]_vars

----------------------------------------------------------------------------
(* frontend/src/App.js, components/TaskList/TaskItem.jsx, services/api.js *)

ClientUsers == {"u1"}

\* an async handler call: the tasks value its closure captured, the token the
\* request interceptor attached, and the response once the API has answered
Call(kind, id, body) ==
  [kind |-> kind, id |-> id, body |-> body, seen |-> tasks, auth |-> token,
   phase |-> "sent", data |-> <<>>]

Remove(s, i) == [k \in 1..(Len(s) - 1) |-> IF k < i THEN s[k] ELSE s[k + 1]]

\* the Dashboard route is rendered: past the loading gate and authenticated
Dashboard == mounted /\ ~loading /\ isAuthenticated
\* the Login or Register route is rendered
LoginPage == mounted /\ ~loading /\ ~isAuthenticated

Fetching == \E k \in DOMAIN calls : calls[k].kind = "fetchTasks"

\* useEffect(() => {...}, [])
Mount ==
  /\ ~mounted
  /\ mounted' = TRUE
  /\ IF token # <<>>
     THEN /\ isAuthenticated' = TRUE
          /\ calls' = Append(calls, Call("fetchTasks", 0, NoBody))
          /\ UNCHANGED loading
     ELSE /\ loading' = FALSE
          /\ UNCHANGED <<isAuthenticated, calls>>
  /\ UNCHANGED <<token, tasks, disturbed>>

handleLogin(tok) ==
  /\ LoginPage
  /\ token' = <<tok>>
  /\ isAuthenticated' = TRUE
  /\ calls' = Append(calls, [Call("fetchTasks", 0, NoBody) EXCEPT !.auth = <<tok>>])
  /\ disturbed' = (disturbed \/ calls # <<>>)
  /\ UNCHANGED <<tasks, loading, mounted>>

handleLogout ==
  /\ Dashboard
  /\ token' = <<>>
  /\ isAuthenticated' = FALSE
  /\ tasks' = <<>>
  /\ UNCHANGED <<loading, mounted, calls, disturbed>>

\* the part of each handler up to its await
handleCreateTask(taskData) ==
  /\ Dashboard
  /\ calls' = Append(calls, Call("handleCreateTask", 0, taskData))
  /\ disturbed' = (disturbed \/ Fetching)
  /\ UNCHANGED <<token, isAuthenticated, tasks, loading, mounted>>

handleUpdateTask(taskId, updatedData) ==
  /\ Dashboard
  /\ calls' = Append(calls, Call("handleUpdateTask", taskId, updatedData))
  /\ disturbed' = (disturbed \/ Fetching)
  /\ UNCHANGED <<token, isAuthenticated, tasks, loading, mounted>>

handleDeleteTask(taskId) ==
  /\ Dashboard
  /\ calls' = Append(calls, Call("handleDeleteTask", taskId, NoBody))
  /\ disturbed' = (disturbed \/ Fetching)
  /\ UNCHANGED <<token, isAuthenticated, tasks, loading, mounted>>

\* TaskItem.handleStatusChange: onUpdate(task._id, { ...task, status: newStatus })
\* (of the spread, the paths the schema validates and the owner reference)
StatusChange(task, newStatus) ==
  IF task.description = <<>>
  THEN [title |-> task.title[1], status |-> newStatus,
        priority |-> task.priority, user |-> task.user]
  ELSE [title |-> task.title[1], description |-> task.description[1],
        status |-> newStatus, priority |-> task.priority, user |-> task.user]

\* the API answers call c: the controller runs for the user of the token
Answer(c, r) ==
  [c EXCEPT !.phase = IF r.status \in {200, 201} THEN "ok" ELSE "error",
            !.data = r.data]

Serve(i, ok, t) ==
  /\ i \in DOMAIN calls
  /\ calls[i].phase = "sent"
  /\ calls[i].auth # <<>>
  /\ LET c == calls[i]
         u == c.auth[1]
     IN \E order \in findSorted(store, u) :
          LET r == CASE c.kind = "fetchTasks" -> getTasksResult(store, u, ok, order)
                     [] c.kind = "handleCreateTask" ->
                          createTaskResult(store, nextId, t, u, c.body, ok)
                     [] c.kind = "handleUpdateTask" ->
                          updateTaskResult(store, u, c.id, c.body, ok)
                     [] c.kind = "handleDeleteTask" ->
                          deleteTaskResult(store, u, c.id, ok)
          IN /\ store' = r.store
             /\ nextId' = IF r.status = 201 THEN nextId + 1 ELSE nextId
             /\ now' = IF r.status = 201 THEN t ELSE now
             /\ calls' = [calls EXCEPT ![i] = Answer(c, r)]
  /\ UNCHANGED <<createdBy, last, token, isAuthenticated, tasks, loading,
                 mounted, disturbed>>

\* fetchTasks whose catch leaves loading as it is
fetchTasksCatchKeepsLoading(c) ==
  IF c.phase = "ok"
  THEN tasks' = c.data /\ loading' = FALSE
  ELSE UNCHANGED <<tasks, loading>>

\* the part of each handler after its await
fetchTasks(c) ==
  IF c.phase = "ok"
  THEN tasks' = c.data /\ loading' = FALSE
  ELSE loading' = FALSE /\ UNCHANGED tasks

createTaskDone(c) ==
  /\ tasks' = IF c.phase = "ok" THEN c.data \o c.seen ELSE tasks
  /\ UNCHANGED loading

updateTaskDone(c) ==
  /\ tasks' = IF c.phase = "ok"
              THEN [k \in DOMAIN c.seen |->
                      IF c.seen[k]._id = c.id THEN c.data[1] ELSE c.seen[k]]
              ELSE tasks
  /\ UNCHANGED loading

deleteTaskDone(c) ==
  /\ tasks' = IF c.phase = "ok"
              THEN SelectSeq(c.seen, LAMBDA x : x._id # c.id)
              ELSE tasks
  /\ UNCHANGED loading

Resume(i) ==
  /\ i \in DOMAIN calls
  /\ calls[i].phase # "sent"
  /\ CASE calls[i].kind = "fetchTasks" -> fetchTasks(calls[i])
       [] calls[i].kind = "handleCreateTask" -> createTaskDone(calls[i])
       [] calls[i].kind = "handleUpdateTask" -> updateTaskDone(calls[i])
       [] calls[i].kind = "handleDeleteTask" -> deleteTaskDone(calls[i])
  /\ calls' = Remove(calls, i)
  /\ disturbed' = (disturbed \/ calls[i].phase = "error")
  /\ UNCHANGED <<store, nextId, now, createdBy, last, token, isAuthenticated, mounted>>

InitClient == \E tok \in {<<>>} \cup {<<u>> : u \in ClientUsers} : InitWith(tok)

Creating == Len(SelectSeq(calls, LAMBDA c : c.kind = "handleCreateTask" /\ c.phase = "sent"))
server == <<store, nextId, now, createdBy, last>>

\* One browser session: at most maxCalls calls in flight, at most maxTasks
\* tasks ever created, the API reached at least a millisecond after the last save
ClientStep(maxTasks, maxCalls) ==
  \/ Mount /\ UNCHANGED server
  \/ \E u \in ClientUsers :
       Len(calls) < maxCalls /\ handleLogin(u) /\ UNCHANGED server
  \/ handleLogout /\ UNCHANGED server
  \/ /\ Len(calls) < maxCalls
     /\ nextId + Creating <= maxTasks
     /\ handleCreateTask([title |-> A1])
     /\ UNCHANGED server
  \/ \E k \in DOMAIN tasks :
       /\ Len(calls) < maxCalls
       /\ tasks[k].status # "completed"
       /\ handleUpdateTask(tasks[k]._id, StatusChange(tasks[k], "completed"))
       /\ UNCHANGED server
  \/ \E k \in DOMAIN tasks :
       Len(calls) < maxCalls /\ handleDeleteTask(tasks[k]._id) /\ UNCHANGED server
  \/ \E i \in DOMAIN calls, ok \in BOOLEAN : Serve(i, ok, now + 1)
  \/ \E i \in DOMAIN calls : Resume(i)

NextClient == ClientStep(MaxClientTasks, MaxCalls)

SpecClient == InitClient /\ [][NextClient]_vars

NextLoading == ClientStep(MaxLoadTasks, MaxLoadCalls)

\* every request is eventually answered and every answered call resumes
SpecLoading ==
  /\ InitClient
  /\ [][NextLoading]_vars
  /\ WF_vars(Mount /\ UNCHANGED server)
  /\ WF_vars(\E i \in DOMAIN calls, ok \in BOOLEAN : Serve(i, ok, now + 1))
  /\ WF_vars(\E i \in DOMAIN calls : Resume(i))

----------------------------------------------------------------------------
(* Properties of the task controller *)

DataIds(d) == {d[i]._id : i \in DOMAIN d}
Listed == last.op = "getTasks" /\ last.status = 200

\* C1: a task created by user A is returned by getTasks for A while it exists
\* and is never returned by getTasks for another user B.
C1_OnlyCreatorSees ==
  Listed => DataIds(last.data) =
              {t._id : t \in {x \in store : createdBy[x._id] = last.user}}

Owns(u, id) == \E t \in store : t._id = id /\ t.user = u

\* C2: updateTask or deleteTask naming a task that does not exist or belongs
\* to another user answers 404 and leaves the collection as it was (read for
\* the requests whose store call does not fail).
C2_NotFound404 ==
  [][(/\ last'.op \in {"updateTask", "deleteTask"}
      /\ ~Owns(last'.user, last'.id)
      /\ last'.err # "server")
     => (last'.status = 404 /\ store' = store)]_vars

\* C2 as amended: such a request leaves the collection as it was and is
\* answered with an error: 404 when the lookup runs and finds nothing, 400 when
\* updateTask's body fails validation or its store call fails, 500 when
\* deleteTask's store call fails.
C2_NotFoundUnchanged ==
  [][(/\ last'.op \in {"updateTask", "deleteTask"}
      /\ ~Owns(last'.user, last'.id))
     => /\ store' = store
        /\ last'.err # "none"
        /\ last'.data = <<>>
        /\ last'.status =
             IF last'.err = "notfound" THEN 404
             ELSE IF last'.op = "updateTask" THEN 400 ELSE 500]_vars

C2_Witness ==
  /\ last.op = "updateTask"
  /\ last.status = 404
  /\ \E t \in store : t._id = last.id /\ t.user # last.user

\* C4: every stored task's owner reference is the identity of an existing user.
C4_OwnerExists == \A t \in store : t.user \in Users

IsOrderOf(d, S) ==
  /\ DataIds(d) = {t._id : t \in S}
  /\ \A i \in DOMAIN d : d[i] \in S
  /\ \A i, j \in DOMAIN d : i # j => d[i]._id # d[j]._id

\* C5: getTasks returns all and only the user's tasks, a task created later
\* always before a task created earlier (ids are handed out in creation order).
C5_NewestFirst ==
  Listed =>
    /\ IsOrderOf(last.data, {t \in store : t.user = last.user})
    /\ \A i, j \in DOMAIN last.data :
         i < j => last.data[i]._id > last.data[j]._id

\* C5 as amended: getTasks returns all and only the user's tasks ordered by
\* creation timestamp, latest first (tasks saved at the same timestamp come in
\* either order), and no request changes the creation timestamp of a task.
C5_LatestTimestampFirst ==
  [][/\ Listed' =>
          /\ IsOrderOf(last'.data, {t \in store' : t.user = last'.user})
          /\ \A i, j \in DOMAIN last'.data :
               last'.data[i].createdAt > last'.data[j].createdAt => i < j
     /\ \A t \in store : \A s \in store' :
          s._id = t._id => s.createdAt = t.createdAt]_vars

C5_Witness ==
  /\ Listed
  /\ Len(last.data) >= 2
  /\ last.data[1].createdAt > last.data[2].createdAt
  /\ last.data[2].status = "completed"

\* C6: every failure is reported with the status code of its error class:
\* validation 400, missing or non-owned task 404, any other failure 500.
C6_StatusOfErrorClass ==
  /\ last.err = "validation" => last.status = 400
  /\ last.err = "notfound" => last.status = 404
  /\ last.err = "server" => last.status = 500

\* the schema as the data model states it
SchemaOK(t) ==
  /\ Len(t.title) = 1
  /\ t.title[1].pre + t.title[1].core >= 1
  /\ t.title[1].pre + t.title[1].core <= 100
  /\ Len(t.description) = 1 => t.description[1].pre + t.description[1].core <= 500
  /\ t.status \in {"todo", "in-progress", "completed"}
  /\ t.priority \in {"low", "medium", "high"}

Created201 == last.op = "createTask" /\ last.status = 201
Found(i, title, status, priority) ==
  /\ last'.data[i].title = <<title>>
  /\ last'.data[i].status = status
  /\ last'.data[i].priority = priority

\* C3: after a successful createTask with title X and no status, the user's
\* next getTasks includes a task with title X, status todo, priority medium.
C3_RoundTripExact ==
  [][(/\ Created201 /\ ~Has(last.req, "status")
      /\ Listed' /\ last'.user = last.user)
     => \E i \in DOMAIN last'.data :
          Found(i, last.req.title, "todo", "medium")]_vars

\* C3 as amended: ... includes a task with title X trimmed of surrounding
\* blanks, status todo, and the priority given, medium when none was given.
C3_RoundTripTrimmed ==
  [][(/\ Created201 /\ ~Has(last.req, "status")
      /\ Listed' /\ last'.user = last.user)
     => \E i \in DOMAIN last'.data :
          Found(i, [pre |-> 0, core |-> last.req.title.core], "todo",
                IF Has(last.req, "priority") THEN last.req.priority ELSE "medium")]_vars

C3_Witness ==
  /\ Listed
  /\ \E i \in DOMAIN last.data :
       /\ last.data[i].title = <<A1>>
       /\ last.data[i].status = "todo"
       /\ last.data[i].priority = "high"

\* a create or update request asks to store a task that breaks the schema:
\* a path it sets is, once stripped of surrounding blanks, out of its bounds,
\* or a create names no title
AsksInvalid(op, req) ==
  \/ op = "createTask" /\ ~Has(req, "title")
  \/ Has(req, "title") /\ (req.title.core < 1 \/ req.title.core > 100)
  \/ Has(req, "description") /\ req.description.core > 500
  \/ Has(req, "status") /\ req.status \notin {"todo", "in-progress", "completed"}
  \/ Has(req, "priority") /\ req.priority \notin {"low", "medium", "high"}

----------------------------------------------------------------------------
(* Properties of the client *)

\* C8: whenever the user is logged out (isAuthenticated false, no token
\* stored), the tasks state is empty.
C8_LoggedOutNoTasks == (~isAuthenticated /\ token = <<>>) => tasks = <<>>

Range(s) == {s[k] : k \in DOMAIN s}

\* C9: once every request issued by the handlers has succeeded, the tasks state
\* holds exactly the tasks the server stores for the user.
C9_TasksMatchServer ==
  (Dashboard /\ calls = <<>> /\ ~disturbed)
    => Range(tasks) = {t \in store : t.user = token[1]}

\* C10: after the App mounts, loading eventually becomes false and stays
\* false: immediately when no token is stored, and otherwise once the initial
\* fetchTasks call completes, whether it succeeds or fails.
C10_LoadingEnds ==
  /\ <>[](loading = FALSE)
  /\ [][(~mounted /\ mounted' /\ token = <<>>) => ~loading']_vars
  /\ [](mounted /\ ~Fetching => ~loading)
  /\ [][~loading => ~loading']_vars

C10_Witness ==
  /\ mounted /\ isAuthenticated /\ ~loading
  /\ disturbed /\ calls = <<>> /\ store = {}

====
